---- MODULE Spec2Model ----
(***************************************************************************)
(* ScopeBlind gateway (src/src/index.ts): the per-request handler `fetch`  *)
(* of the Cloudflare Worker, with its two awaited outbound calls (the      *)
(* verifier and the origin) as the points where a handler is suspended.    *)
(*                                                                         *)
(* Strings that the code only compares or copies are TLA+ strings.  The    *)
(* HTTP method and PROTECTED_METHODS are sequences of one-character        *)
(* strings, because the code splits, trims and uppercases them.  A JS      *)
(* object with optional properties (env, a JSON body, a Headers object)    *)
(* is a function whose DOMAIN holds exactly the properties that are set.   *)
(* Not modelled: request/response body bytes, the `ts` timestamp and the   *)
(* `ip` field of a telemetry event, the Origin request header.             *)
(***************************************************************************)
EXTENDS Integers, Sequences, FiniteSets, TLC

VARIABLES
    env,              \* the Env bindings of the deployed worker
    pc,               \* per handler: "idle", "verify", "origin" or "done"
    request,          \* per handler: the inbound Request
    verifierCalls,    \* per handler: the requests it sent to the verifier
    verifierReplies,  \* per handler: what those awaited calls settled to
    originCalls,      \* per handler: the requests it sent to the origin
    originReplies,    \* per handler: what those awaited calls settled to
    telemetry,        \* per handler: the events it passed to logShadow
    response          \* per handler: the Response it returned

vars == <<env, pc, request, verifierCalls, verifierReplies, originCalls,
          originReplies, telemetry, response>>

(***************************************************************************)
(* Bounds of the model.                                                    *)
(***************************************************************************)
\* the verifier reports a remaining quota in 0..MaxRemaining
MaxRemaining == 1

\* handlers of the worker that the main specification runs
Handlers == {1}

\* handlers that run concurrently in the specification of interleavings
NumHandlers == 2

(***************************************************************************)
(* Strings as sequences of characters.                                     *)
(***************************************************************************)
LowerLetters == <<"a","b","c","d","e","f","g","h","i","j","k","l","m",
                  "n","o","p","q","r","s","t","u","v","w","x","y","z">>
UpperLetters == <<"A","B","C","D","E","F","G","H","I","J","K","L","M",
                  "N","O","P","Q","R","S","T","U","V","W","X","Y","Z">>

UpperChar(c) ==
    IF \E i \in DOMAIN LowerLetters : LowerLetters[i] = c
    THEN UpperLetters[CHOOSE i \in DOMAIN LowerLetters : LowerLetters[i] = c]
    ELSE c

\* String.prototype.toUpperCase
toUpperCase(s) == [i \in DOMAIN s |-> UpperChar(s[i])]

IsSpace(c) == c = " "

RECURSIVE trimStart(_)
trimStart(s) ==
    IF s # << >> /\ IsSpace(Head(s)) THEN trimStart(Tail(s)) ELSE s

RECURSIVE trimEnd(_)
trimEnd(s) ==
    IF s # << >> /\ IsSpace(s[Len(s)])
    THEN trimEnd(SubSeq(s, 1, Len(s) - 1))
    ELSE s

\* String.prototype.trim
trim(s) == trimEnd(trimStart(s))

\* String.prototype.split with a one-character separator
RECURSIVE split(_, _)
split(s, sep) ==
    IF \E i \in DOMAIN s : s[i] = sep
    THEN LET i == CHOOSE j \in DOMAIN s :
                      s[j] = sep /\ \A k \in 1..(j - 1) : s[k] # sep
         IN  <<SubSeq(s, 1, i - 1)>> \o split(SubSeq(s, i + 1, Len(s)), sep)
    ELSE <<s>>

\* Array.prototype.includes
includes(arr, v) == \E i \in DOMAIN arr : arr[i] = v

GET     == <<"G","E","T">>
POST    == <<"P","O","S","T">>
PATCH   == <<"P","A","T","C","H">>
patch   == <<"p","a","t","c","h">>
OPTIONS == <<"O","P","T","I","O","N","S">>

\* "POST,PUT,DELETE,PATCH", the default of PROTECTED_METHODS
DefaultProtectedMethods ==
    <<"P","O","S","T",",","P","U","T",",","D","E","L","E","T","E",",",
      "P","A","T","C","H">>

(***************************************************************************)
(* The Env bindings.  A binding that is not configured is not in the       *)
(* DOMAIN of env, and reading it yields undefined.                         *)
(***************************************************************************)
Optional(name, values) == {<< >>} \cup {name :> v : v \in values}

ShadowModeValues == {"true", "false"}
FallbackModeValues == {"open", "closed"}
\* "post, patch" and "GET,OPTIONS"
ProtectedMethodsValues ==
    { <<"p","o","s","t",","," ","p","a","t","c","h">>,
      <<"G","E","T",",","O","P","T","I","O","N","S">> }

Envs ==
    { [ORIGIN_URL |-> "https://origin.example",
       SCOPEBLIND_VERIFIER_URL |-> "https://verifier.example/v/t/verify"]
      @@ s @@ p @@ f :
        s \in Optional("SHADOW_MODE", ShadowModeValues),
        p \in Optional("PROTECTED_METHODS", ProtectedMethodsValues),
        f \in Optional("FALLBACK_MODE", FallbackModeValues) }

\* const isShadow = env.SHADOW_MODE === "true"
isShadow(e) == "SHADOW_MODE" \in DOMAIN e /\ e.SHADOW_MODE = "true"

\* isShadow ? "shadow" : "enforce"
modeName(e) == IF isShadow(e) THEN "shadow" ELSE "enforce"

\* (env.PROTECTED_METHODS || "POST,PUT,DELETE,PATCH")
\*     .split(",").map((m) => m.trim().toUpperCase())
protectedMethods(e) ==
    LET raw == IF "PROTECTED_METHODS" \in DOMAIN e
                  /\ e.PROTECTED_METHODS # << >>
               THEN e.PROTECTED_METHODS
               ELSE DefaultProtectedMethods
        parts == split(raw, ",")
    IN  [i \in DOMAIN parts |-> toUpperCase(trim(parts[i]))]

\* env.FALLBACK_MODE === "closed"
fallbackClosed(e) == "FALLBACK_MODE" \in DOMAIN e /\ e.FALLBACK_MODE = "closed"

(***************************************************************************)
(* Headers objects.  The Headers class keeps names in lower case, so a     *)
(* Headers object is a function from lower-case names to values, and the   *)
(* names the code writes are lowered before use.  A value that may be      *)
(* null is a sequence of length 0 (null) or 1.                             *)
(***************************************************************************)
lowerHeaderName(name) ==
    CASE name = "X-Proof"                -> "x-proof"
      [] name = "X-ScopeBlind-Proof"     -> "x-scopeblind-proof"
      [] name = "X-ScopeBlind-Mode"      -> "x-scopeblind-mode"
      [] name = "X-ScopeBlind-Verified"  -> "x-scopeblind-verified"
      [] name = "X-ScopeBlind-Action"    -> "x-scopeblind-action"
      [] name = "X-ScopeBlind-Error"     -> "x-scopeblind-error"
      [] name = "X-ScopeBlind-Remaining" -> "x-scopeblind-remaining"
      [] name = "Origin"                 -> "origin"
      [] name = "Content-Type"           -> "content-type"
      [] name = "Access-Control-Allow-Origin" -> "access-control-allow-origin"
      [] OTHER                           -> name

\* Headers.prototype.get: the value, or null
headersGet(h, name) ==
    IF lowerHeaderName(name) \in DOMAIN h
    THEN <<h[lowerHeaderName(name)]>>
    ELSE << >>

\* Headers.prototype.set
headersSet(h, name, v) ==
    [k \in DOMAIN h \cup {lowerHeaderName(name)} |->
        IF k = lowerHeaderName(name) THEN v ELSE h[k]]

\* Headers.prototype.delete
headersDelete(h, name) ==
    [k \in DOMAIN h \ {lowerHeaderName(name)} |-> h[k]]

\* a JS value used as a condition: null and "" are falsy
truthy(x) == x # << >> /\ x[1] # ""

\* a || b
orElse(a, b) == IF truthy(a) THEN a ELSE b

(***************************************************************************)
(* Inbound requests.                                                       *)
(***************************************************************************)
TokenA == "proof-A"
TokenB == "proof-B"
HealthPath == "/_scopeblind/health"
GatewayOrigin == "https://gateway.example"

Methods == {GET, POST, PATCH, patch, OPTIONS}
Paths == {HealthPath, "/api/items"}

\* X-ScopeBlind-* headers that a client put on its own request
ClientMetadata ==
    { << >>,
      [n \in {"x-scopeblind-mode", "x-scopeblind-verified",
              "x-scopeblind-action", "x-scopeblind-error",
              "x-scopeblind-remaining"} |-> "client"] }

Requests ==
    { [method |-> m, pathname |-> p, headers |-> a @@ b @@ c] :
        m \in Methods, p \in Paths,
        a \in Optional("x-proof", {"", TokenA}),
        b \in Optional("x-scopeblind-proof", {"", TokenB}),
        c \in ClientMetadata }

NoRequest == [method |-> << >>, pathname |-> "", headers |-> << >>]

(***************************************************************************)
(* What an awaited outbound fetch settles to.                              *)
(***************************************************************************)
VerifierStatuses == {200, 429}

JsonBodies ==
    { [tag |-> "invalid"], [tag |-> "null"] } \cup
    { [tag |-> "object", obj |-> v @@ r @@ x] :
        v \in Optional("verified", BOOLEAN),
        r \in Optional("remaining", 0..MaxRemaining),
        x \in Optional("error", {"", "quota_exceeded"}) }

VerifierReplies ==
    { [kind |-> "error", message |-> "verifier unreachable"] } \cup
    { [kind |-> "response", status |-> s, json |-> j] :
        s \in VerifierStatuses, j \in JsonBodies }

OriginStatuses == {200, 401}

OriginReplies ==
    { [kind |-> "error", message |-> "origin unreachable"] } \cup
    { [kind |-> "response", status |-> s, headers |-> << >>,
       body |-> [stream |-> "origin-bytes"]] : s \in OriginStatuses }

\* Response.ok
ok(reply) == reply.status \in 200..299

(***************************************************************************)
(* Helpers of the handler.                                                 *)
(***************************************************************************)
\* function logShadow(action, data): the event written to the console
logShadow(action, data) ==
    ("_scopeblind" :> TRUE) @@ ("action" :> action) @@ data

\* function corsHeaders(request)
corsHeaders(req) ==
    [n \in {"content-type", "access-control-allow-origin"} |->
        IF n = "content-type"
        THEN "application/json"
        ELSE orElse(headersGet(req.headers, "Origin"), <<"*">>)[1]]

\* Response.json(body, {status, headers})
jsonResponse(body, status, headers) ==
    [status |-> status, headers |-> headers, body |-> body]

NoBody == [empty |-> TRUE]

\* the CORS preflight answer
preflightResponse(req) ==
    [status |-> 200,
     headers |->
        [n \in {"access-control-allow-origin", "access-control-allow-methods",
                "access-control-allow-headers", "access-control-max-age"} |->
            CASE n = "access-control-allow-origin" ->
                    orElse(headersGet(req.headers, "Origin"), <<"*">>)[1]
              [] n = "access-control-allow-methods" ->
                    "GET, POST, PUT, DELETE, PATCH, OPTIONS"
              [] n = "access-control-allow-headers" ->
                    "Content-Type, Authorization, X-Proof, X-ScopeBlind-Proof"
              [] OTHER -> "86400"],
     body |-> NoBody]

\* the health check answer
healthResponse(e) ==
    jsonResponse([ok |-> TRUE, mode |-> modeName(e), origin |-> e.ORIGIN_URL,
                  verifier |-> e.SCOPEBLIND_VERIFIER_URL],
                 200, [n \in {"content-type"} |-> "application/json"])

\* const needsProof = protectedMethods.includes(request.method)
needsProof(e, req) == includes(protectedMethods(e), req.method)

\* const proof = request.headers.get("X-Proof") ||
\*               request.headers.get("X-ScopeBlind-Proof")
proofOf(req) ==
    orElse(headersGet(req.headers, "X-Proof"),
           headersGet(req.headers, "X-ScopeBlind-Proof"))

(***************************************************************************)
(* forwardToOrigin.                                                        *)
(***************************************************************************)
\* a variant that forgets the second proof header
forwardHeadersKeepSecond(req, extraHeaders) ==
    LET kept == {n \in DOMAIN extraHeaders : extraHeaders[n] # ""}
        withExtra ==
            [k \in DOMAIN req.headers \cup {lowerHeaderName(n) : n \in kept} |->
                IF \E n \in kept : lowerHeaderName(n) = k
                THEN extraHeaders[CHOOSE n \in kept : lowerHeaderName(n) = k]
                ELSE req.headers[k]]
    IN  headersDelete(withExtra, "X-Proof")

\* const headers = new Headers(request.headers); every non-empty entry of
\* extraHeaders is set; then the two proof headers are deleted
forwardHeaders(req, extraHeaders) ==
    LET kept == {n \in DOMAIN extraHeaders : extraHeaders[n] # ""}
        withExtra ==
            [k \in DOMAIN req.headers \cup {lowerHeaderName(n) : n \in kept} |->
                IF \E n \in kept : lowerHeaderName(n) = k
                THEN extraHeaders[CHOOSE n \in kept : lowerHeaderName(n) = k]
                ELSE req.headers[k]]
    IN  headersDelete(headersDelete(withExtra, "X-Proof"),
                      "X-ScopeBlind-Proof")

\* the Request that forwardToOrigin passes to fetch
originRequest(req, e, extraHeaders) ==
    [origin |-> e.ORIGIN_URL, method |-> req.method,
     pathname |-> req.pathname,
     headers |-> forwardHeaders(req, extraHeaders)]

\* a variant that reports an origin failure as 503
upstreamErrorAs503(req) ==
    jsonResponse([error |-> "upstream_error",
                  message |-> "Failed to reach backend."],
                 503, corsHeaders(req))

\* the catch of forwardToOrigin
upstreamError(req) ==
    jsonResponse([error |-> "upstream_error",
                  message |-> "Failed to reach backend."],
                 502, corsHeaders(req))

\* what forwardToOrigin returns once its fetch has settled
originResult(req, reply) ==
    IF reply.kind = "error"
    THEN upstreamError(req)
    ELSE [status |-> reply.status,
          headers |-> headersSet(reply.headers, "Access-Control-Allow-Origin",
                          orElse(headersGet(req.headers, "Origin"), <<"*">>)[1]),
          body |-> reply.body]

(***************************************************************************)
(* The branches of fetch.  Each yields the events it logs and its effect:  *)
(* a Response returned at once, a call to the origin, or a call to the     *)
(* verifier.                                                               *)
(***************************************************************************)
respond(res) == [k |-> "respond", res |-> res]
forward(req, e, extraHeaders) ==
    [k |-> "forward", out |-> originRequest(req, e, extraHeaders)]

\* a variant that labels an unchecked request as verified
unprotectedStepVerifiedTrue(e, req) ==
    [events |-> << >>,
     effect |-> forward(req, e,
                    [n \in {"X-ScopeBlind-Mode", "X-ScopeBlind-Verified"} |->
                        IF n = "X-ScopeBlind-Mode" THEN modeName(e)
                        ELSE "true"])]

\* if (!needsProof) return forwardToOrigin(...)
unprotectedStep(e, req) ==
    [events |-> << >>,
     effect |-> forward(req, e,
                    [n \in {"X-ScopeBlind-Mode", "X-ScopeBlind-Verified"} |->
                        IF n = "X-ScopeBlind-Mode" THEN modeName(e)
                        ELSE "skipped"])]

\* a variant that rejects a missing proof in both modes
noProofStepAlwaysReject(e, req) ==
    [events |-> <<logShadow("no_proof",
                     [method |-> req.method, path |-> req.pathname])>>,
     effect |-> respond(jsonResponse(
                [error |-> "proof_required",
                 message |-> "This endpoint requires a ScopeBlind proof. Include it in the X-Proof header."],
                401, corsHeaders(req)))]

\* if (!proof) { ... }
noProofStep(e, req) ==
    [events |-> <<logShadow("no_proof",
                     [method |-> req.method, path |-> req.pathname])>>,
     effect |->
        IF isShadow(e)
        THEN forward(req, e,
                [n \in {"X-ScopeBlind-Mode", "X-ScopeBlind-Verified",
                        "X-ScopeBlind-Action"} |->
                    CASE n = "X-ScopeBlind-Mode" -> "shadow"
                      [] n = "X-ScopeBlind-Verified" -> "missing"
                      [] OTHER -> "would-block"])
        ELSE respond(jsonResponse(
                [error |-> "proof_required",
                 message |-> "This endpoint requires a ScopeBlind proof. Include it in the X-Proof header."],
                401, corsHeaders(req)))]

\* the request of `await fetch(env.SCOPEBLIND_VERIFIER_URL, {...})`
verifierRequest(e, req, proof) ==
    [url |-> e.SCOPEBLIND_VERIFIER_URL, method |-> "POST",
     headers |->
        [n \in {"content-type", "origin"} |->
            IF n = "content-type" THEN "application/json"
            ELSE orElse(headersGet(req.headers, "Origin"),
                        <<GatewayOrigin>>)[1]],
     body |-> proof]

\* the exception the try block throws for this reply, or none: fetch
\* rejects, verifyRes.json() rejects, or a property of null is read
tryThrows(reply) ==
    CASE reply.kind = "error"       -> <<reply.message>>
      [] reply.json.tag = "invalid" -> <<"Unexpected token in JSON">>
      [] reply.json.tag = "null"    -> <<"Cannot read properties of null">>
      [] OTHER                      -> << >>

\* a variant that does not look at the HTTP status of the verifier
verificationFailedIgnoresStatus(reply) ==
    ~("verified" \in DOMAIN reply.json.obj /\ reply.json.obj.verified)

\* !verifyRes.ok || !verifyResult.verified
verificationFailed(reply) ==
    \/ ~ok(reply)
    \/ ~("verified" \in DOMAIN reply.json.obj /\ reply.json.obj.verified)

\* a variant with ?? in place of ||: an empty error is kept
errorOrNullish(obj, dflt) ==
    IF "error" \in DOMAIN obj THEN obj.error ELSE dflt

\* verifyResult.error || dflt
errorOr(obj, dflt) ==
    IF "error" \in DOMAIN obj /\ obj.error # "" THEN obj.error ELSE dflt

\* a variant that applies the fallback policy to a rejected proof as well
verifyFailedStepFailOpen(e, req, reply) ==
    LET verifyResult == reply.json.obj IN
    [events |-> <<logShadow("verify_failed",
                     [method |-> req.method, path |-> req.pathname,
                      status |-> reply.status,
                      error |-> errorOr(verifyResult, "unknown")])>>,
     effect |->
        IF isShadow(e) \/ ~fallbackClosed(e)
        THEN forward(req, e,
                [n \in {"X-ScopeBlind-Mode", "X-ScopeBlind-Verified",
                        "X-ScopeBlind-Action", "X-ScopeBlind-Error"} |->
                    CASE n = "X-ScopeBlind-Mode" -> modeName(e)
                      [] n = "X-ScopeBlind-Verified" -> "failed"
                      [] n = "X-ScopeBlind-Action" -> "would-block"
                      [] OTHER -> errorOr(verifyResult, "verification_failed")])
        ELSE respond(jsonResponse(
                [error |-> "rate_limited",
                 message |-> "Request quota exceeded or proof invalid."]
                @@ (IF "error" \in DOMAIN verifyResult
                    THEN "details" :> verifyResult.error
                    ELSE << >>),
                429, corsHeaders(req)))]

\* if (!verifyRes.ok || !verifyResult.verified) { ... }
verifyFailedStep(e, req, reply) ==
    LET verifyResult == reply.json.obj IN
    [events |-> <<logShadow("verify_failed",
                     [method |-> req.method, path |-> req.pathname,
                      status |-> reply.status,
                      error |-> errorOr(verifyResult, "unknown")])>>,
     effect |->
        IF isShadow(e)
        THEN forward(req, e,
                [n \in {"X-ScopeBlind-Mode", "X-ScopeBlind-Verified",
                        "X-ScopeBlind-Action", "X-ScopeBlind-Error"} |->
                    CASE n = "X-ScopeBlind-Mode" -> "shadow"
                      [] n = "X-ScopeBlind-Verified" -> "failed"
                      [] n = "X-ScopeBlind-Action" -> "would-block"
                      [] OTHER -> errorOr(verifyResult, "verification_failed")])
        ELSE respond(jsonResponse(
                [error |-> "rate_limited",
                 message |-> "Request quota exceeded or proof invalid."]
                @@ (IF "error" \in DOMAIN verifyResult
                    THEN "details" :> verifyResult.error
                    ELSE << >>),
                429, corsHeaders(req)))]

\* a variant that fails open whatever FALLBACK_MODE says
catchStepAlwaysForward(e, req, message) ==
    [events |-> <<logShadow("verifier_error",
                     [method |-> req.method, path |-> req.pathname,
                      error |-> message])>>,
     effect |->
        forward(req, e,
                [n \in {"X-ScopeBlind-Mode", "X-ScopeBlind-Verified",
                        "X-ScopeBlind-Action"} |->
                    CASE n = "X-ScopeBlind-Mode" -> modeName(e)
                      [] n = "X-ScopeBlind-Verified" -> "error"
                      [] OTHER -> "fallback-allow"])]

\* a variant that fails closed in shadow mode too
catchStepClosedInShadow(e, req, message) ==
    [events |-> <<logShadow("verifier_error",
                     [method |-> req.method, path |-> req.pathname,
                      error |-> message])>>,
     effect |->
        IF fallbackClosed(e)
        THEN respond(jsonResponse(
                [error |-> "verification_unavailable",
                 message |-> "Unable to verify request. Try again later."],
                503, corsHeaders(req)))
        ELSE forward(req, e,
                [n \in {"X-ScopeBlind-Mode", "X-ScopeBlind-Verified",
                        "X-ScopeBlind-Action"} |->
                    CASE n = "X-ScopeBlind-Mode" -> modeName(e)
                      [] n = "X-ScopeBlind-Verified" -> "error"
                      [] OTHER -> "fallback-allow"])]

\* a variant that labels the fail-open forward like the other forwards
catchStepWouldBlock(e, req, message) ==
    [events |-> <<logShadow("verifier_error",
                     [method |-> req.method, path |-> req.pathname,
                      error |-> message])>>,
     effect |->
        IF fallbackClosed(e) /\ ~isShadow(e)
        THEN respond(jsonResponse(
                [error |-> "verification_unavailable",
                 message |-> "Unable to verify request. Try again later."],
                503, corsHeaders(req)))
        ELSE forward(req, e,
                [n \in {"X-ScopeBlind-Mode", "X-ScopeBlind-Verified",
                        "X-ScopeBlind-Action"} |->
                    CASE n = "X-ScopeBlind-Mode" -> modeName(e)
                      [] n = "X-ScopeBlind-Verified" -> "error"
                      [] OTHER -> "would-block"])]

\* a variant that calls the verifier again when the call has failed
catchStepRetries(e, req, message) ==
    [events |-> <<logShadow("verifier_error",
                     [method |-> req.method, path |-> req.pathname,
                      error |-> message])>>,
     effect |-> [k |-> "verify",
                 call |-> verifierRequest(e, req, proofOf(req)[1])]]

\* catch (e) { ... }
catchStep(e, req, message) ==
    [events |-> <<logShadow("verifier_error",
                     [method |-> req.method, path |-> req.pathname,
                      error |-> message])>>,
     effect |->
        IF fallbackClosed(e) /\ ~isShadow(e)
        THEN respond(jsonResponse(
                [error |-> "verification_unavailable",
                 message |-> "Unable to verify request. Try again later."],
                503, corsHeaders(req)))
        ELSE forward(req, e,
                [n \in {"X-ScopeBlind-Mode", "X-ScopeBlind-Verified",
                        "X-ScopeBlind-Action"} |->
                    CASE n = "X-ScopeBlind-Mode" -> modeName(e)
                      [] n = "X-ScopeBlind-Verified" -> "error"
                      [] OTHER -> "fallback-allow"])]

\* a variant that logs a verified request in shadow mode only
verifiedStepLogsInShadowOnly(e, req, reply) ==
    LET verifyResult == reply.json.obj IN
    [events |-> IF isShadow(e)
                THEN <<logShadow("verified",
                         [method |-> req.method, path |-> req.pathname]
                         @@ (IF "remaining" \in DOMAIN verifyResult
                             THEN "remaining" :> verifyResult.remaining
                             ELSE << >>))>>
                ELSE << >>,
     effect |->
        forward(req, e,
            [n \in {"X-ScopeBlind-Mode", "X-ScopeBlind-Verified",
                    "X-ScopeBlind-Remaining"} |->
                CASE n = "X-ScopeBlind-Mode" -> modeName(e)
                  [] n = "X-ScopeBlind-Verified" -> "true"
                  [] OTHER ->
                        IF "remaining" \in DOMAIN verifyResult
                        THEN ToString(verifyResult.remaining)
                        ELSE ""])]

\* a variant that writes String(verifyResult.remaining || ""), which loses
\* a remaining quota of 0
verifiedStepDropsZero(e, req, reply) ==
    LET verifyResult == reply.json.obj IN
    [events |-> <<logShadow("verified",
                     [method |-> req.method, path |-> req.pathname]
                     @@ (IF "remaining" \in DOMAIN verifyResult
                         THEN "remaining" :> verifyResult.remaining
                         ELSE << >>))>>,
     effect |->
        forward(req, e,
            [n \in {"X-ScopeBlind-Mode", "X-ScopeBlind-Verified",
                    "X-ScopeBlind-Remaining"} |->
                CASE n = "X-ScopeBlind-Mode" -> modeName(e)
                  [] n = "X-ScopeBlind-Verified" -> "true"
                  [] OTHER ->
                        IF "remaining" \in DOMAIN verifyResult
                           /\ verifyResult.remaining # 0
                        THEN ToString(verifyResult.remaining)
                        ELSE ""])]

\* 5. Verification passed
verifiedStep(e, req, reply) ==
    LET verifyResult == reply.json.obj IN
    [events |-> <<logShadow("verified",
                     [method |-> req.method, path |-> req.pathname]
                     @@ (IF "remaining" \in DOMAIN verifyResult
                         THEN "remaining" :> verifyResult.remaining
                         ELSE << >>))>>,
     effect |->
        forward(req, e,
            [n \in {"X-ScopeBlind-Mode", "X-ScopeBlind-Verified",
                    "X-ScopeBlind-Remaining"} |->
                CASE n = "X-ScopeBlind-Mode" -> modeName(e)
                  [] n = "X-ScopeBlind-Verified" -> "true"
                  [] OTHER ->
                        IF "remaining" \in DOMAIN verifyResult
                        THEN ToString(verifyResult.remaining)
                        ELSE ""])]

\* a variant that takes an empty header value for a proof
noProofOnlyNull(req) == proofOf(req) = << >>

\* if (!proof)
noProof(req) == ~truthy(proofOf(req))

\* a variant that looks at the health path before the preflight
fetchStageHealthFirst(e, req) ==
    IF req.pathname = HealthPath
    THEN [events |-> << >>, effect |-> respond(healthResponse(e))]
    ELSE IF req.method = OPTIONS
    THEN [events |-> << >>, effect |-> respond(preflightResponse(req))]
    ELSE IF ~needsProof(e, req)
    THEN unprotectedStep(e, req)
    ELSE IF noProof(req)
    THEN noProofStep(e, req)
    ELSE [events |-> << >>,
          effect |-> [k |-> "verify",
                      call |-> verifierRequest(e, req, proofOf(req)[1])]]

\* a variant that serves the health check for GET only
fetchStageHealthGetOnly(e, req) ==
    IF req.method = OPTIONS
    THEN [events |-> << >>, effect |-> respond(preflightResponse(req))]
    ELSE IF req.pathname = HealthPath /\ req.method = GET
    THEN [events |-> << >>, effect |-> respond(healthResponse(e))]
    ELSE IF ~needsProof(e, req)
    THEN unprotectedStep(e, req)
    ELSE IF noProof(req)
    THEN noProofStep(e, req)
    ELSE [events |-> << >>,
          effect |-> [k |-> "verify",
                      call |-> verifierRequest(e, req, proofOf(req)[1])]]

\* fetch, from its entry to its first await or return
fetchStage(e, req) ==
    IF req.method = OPTIONS
    THEN [events |-> << >>, effect |-> respond(preflightResponse(req))]
    ELSE IF req.pathname = HealthPath
    THEN [events |-> << >>, effect |-> respond(healthResponse(e))]
    ELSE IF ~needsProof(e, req)
    THEN unprotectedStep(e, req)
    ELSE IF noProof(req)
    THEN noProofStep(e, req)
    ELSE [events |-> << >>,
          effect |-> [k |-> "verify",
                      call |-> verifierRequest(e, req, proofOf(req)[1])]]

\* fetch, from the settling of the verifier call to its next await or return
verifyStage(e, req, reply) ==
    IF tryThrows(reply) # << >>
    THEN catchStep(e, req, tryThrows(reply)[1])
    ELSE IF verificationFailed(reply)
    THEN verifyFailedStep(e, req, reply)
    ELSE verifiedStep(e, req, reply)

(***************************************************************************)
(* The state machine.                                                      *)
(***************************************************************************)
Init ==
    /\ env \in Envs
    /\ pc = [h \in Handlers |-> "idle"]
    /\ request = [h \in Handlers |-> NoRequest]
    /\ verifierCalls = [h \in Handlers |-> << >>]
    /\ verifierReplies = [h \in Handlers |-> << >>]
    /\ originCalls = [h \in Handlers |-> << >>]
    /\ originReplies = [h \in Handlers |-> << >>]
    /\ telemetry = [h \in Handlers |-> << >>]
    /\ response = [h \in Handlers |-> << >>]

\* handler h logs the events of a step and carries out its effect
Perform(h, step) ==
    /\ telemetry' = [telemetry EXCEPT ![h] = @ \o step.events]
    /\ pc' = [pc EXCEPT ![h] =
                CASE step.effect.k = "respond" -> "done"
                  [] step.effect.k = "forward" -> "origin"
                  [] OTHER -> "verify"]
    /\ response' = [response EXCEPT ![h] =
                IF step.effect.k = "respond" THEN <<step.effect.res>> ELSE @]
    /\ originCalls' = [originCalls EXCEPT ![h] =
                IF step.effect.k = "forward"
                THEN Append(@, step.effect.out) ELSE @]
    /\ verifierCalls' = [verifierCalls EXCEPT ![h] =
                IF step.effect.k = "verify"
                THEN Append(@, step.effect.call) ELSE @]

\* a variant in which `request` is kept in a module-level variable that
\* every invocation overwrites: a resumed handler reads the request of the
\* highest-numbered handler in flight
requestShared(h) ==
    request[CHOOSE g \in DOMAIN pc :
                /\ pc[g] # "idle"
                /\ \A k \in DOMAIN pc : pc[k] # "idle" => k <= g]

\* the `request` parameter of the invocation that handler h runs
requestOf(h) == request[h]

\* the runtime invokes fetch(request, env, ctx) with one of the requests reqs
Receive(h, reqs) ==
    /\ pc[h] = "idle"
    /\ \E req \in reqs :
        /\ request' = [request EXCEPT ![h] = req]
        /\ Perform(h, fetchStage(env, req))
    /\ UNCHANGED <<env, verifierReplies, originReplies>>

\* the awaited verifier call settles to one of replies, the handler runs on
VerifierReturns(h, replies) ==
    /\ pc[h] = "verify"
    /\ \E reply \in replies :
        /\ verifierReplies' = [verifierReplies EXCEPT ![h] = Append(@, reply)]
        /\ Perform(h, verifyStage(env, requestOf(h), reply))
    /\ UNCHANGED <<env, request, originReplies>>

\* the awaited origin call settles to one of replies, forwardToOrigin returns
OriginReturns(h, replies) ==
    /\ pc[h] = "origin"
    /\ \E reply \in replies :
        /\ originReplies' = [originReplies EXCEPT ![h] = Append(@, reply)]
        /\ response' = [response EXCEPT ![h] =
                            <<originResult(requestOf(h), reply)>>]
    /\ pc' = [pc EXCEPT ![h] = "done"]
    /\ UNCHANGED <<env, request, verifierCalls, verifierReplies, originCalls,
                   telemetry>>

Fetch(h) == Receive(h, Requests)

VerifierSettles(h) == VerifierReturns(h, VerifierReplies)

OriginSettles(h) == OriginReturns(h, OriginReplies)

\* the Response has been delivered; the handler is free for a next request
Return(h) ==
    /\ pc[h] = "done"
    /\ pc' = [pc EXCEPT ![h] = "idle"]
    /\ request' = [request EXCEPT ![h] = NoRequest]
    /\ verifierCalls' = [verifierCalls EXCEPT ![h] = << >>]
    /\ verifierReplies' = [verifierReplies EXCEPT ![h] = << >>]
    /\ originCalls' = [originCalls EXCEPT ![h] = << >>]
    /\ originReplies' = [originReplies EXCEPT ![h] = << >>]
    /\ telemetry' = [telemetry EXCEPT ![h] = << >>]
    /\ response' = [response EXCEPT ![h] = << >>]
    /\ UNCHANGED env

Next ==
    \E h \in DOMAIN pc :
        \/ Fetch(h)
        \/ VerifierSettles(h)
        \/ OriginSettles(h)
        \/ Return(h)

Spec == Init /\ [][Next]_vars

(***************************************************************************)
(* Concurrent invocations.  One isolate runs several invocations of fetch, *)
(* which interleave at their awaits; to keep the interleavings            *)
(* enumerable, the requests and replies are a few representatives of the   *)
(* sets above.                                                             *)
(***************************************************************************)
ConcurrentHandlers == 1..NumHandlers

ConcurrentEnvs ==
    { e \in Envs : "PROTECTED_METHODS" \notin DOMAIN e
                   /\ "SHADOW_MODE" \in DOMAIN e
                   /\ "FALLBACK_MODE" \in DOMAIN e }

ConcurrentRequests ==
    { r \in Requests :
        /\ r.pathname # HealthPath
        /\ r.method \in {GET, POST}
        /\ "x-scopeblind-mode" \notin DOMAIN r.headers
        /\ DOMAIN r.headers \in {{}, {"x-proof"}, {"x-scopeblind-proof"}}
        /\ \A n \in DOMAIN r.headers : r.headers[n] # "" }

ConcurrentVerifierReplies ==
    { v \in VerifierReplies :
        \/ v.kind = "error"
        \/ /\ v.kind = "response"
           /\ v.status = 200
           /\ v.json.tag = "object"
           /\ DOMAIN v.json.obj = {"verified"} }

InitConcurrent ==
    /\ env \in ConcurrentEnvs
    /\ pc = [h \in ConcurrentHandlers |-> "idle"]
    /\ request = [h \in ConcurrentHandlers |-> NoRequest]
    /\ verifierCalls = [h \in ConcurrentHandlers |-> << >>]
    /\ verifierReplies = [h \in ConcurrentHandlers |-> << >>]
    /\ originCalls = [h \in ConcurrentHandlers |-> << >>]
    /\ originReplies = [h \in ConcurrentHandlers |-> << >>]
    /\ telemetry = [h \in ConcurrentHandlers |-> << >>]
    /\ response = [h \in ConcurrentHandlers |-> << >>]

NextConcurrent ==
    \E h \in DOMAIN pc :
        \/ Receive(h, ConcurrentRequests)
        \/ VerifierReturns(h, ConcurrentVerifierReplies)
        \/ OriginReturns(h, OriginReplies)
        \/ Return(h)

SpecConcurrent == InitConcurrent /\ [][NextConcurrent]_vars

(***************************************************************************)
(* One invocation on its own: what a handler that was given request req    *)
(* under bindings e has done once the replies in vrs (to its verifier      *)
(* call) and ors (to its origin call) have been delivered to it.           *)
(***************************************************************************)
afterStep(step, calls, events, ors, req) ==
    CASE step.effect.k = "respond" ->
            [pc |-> "done", verifierCalls |-> calls,
             originCalls |-> << >>, telemetry |-> events \o step.events,
             response |-> <<step.effect.res>>]
      [] step.effect.k = "forward" /\ ors = << >> ->
            [pc |-> "origin", verifierCalls |-> calls,
             originCalls |-> <<step.effect.out>>,
             telemetry |-> events \o step.events, response |-> << >>]
      [] step.effect.k = "forward" /\ ors # << >> ->
            [pc |-> "done", verifierCalls |-> calls,
             originCalls |-> <<step.effect.out>>,
             telemetry |-> events \o step.events,
             response |-> <<originResult(req, ors[1])>>]
      [] OTHER ->
            [pc |-> "verify", verifierCalls |-> calls \o <<step.effect.call>>,
             originCalls |-> << >>, telemetry |-> events \o step.events,
             response |-> << >>]

alone(e, req, vrs, ors) ==
    LET first == fetchStage(e, req) IN
    IF first.effect.k = "verify" /\ vrs # << >>
    THEN afterStep(verifyStage(e, req, vrs[1]), <<first.effect.call>>,
                   first.events, ors, req)
    ELSE afterStep(first, << >>, << >>, ors, req)

\* what handler h has done, as the state records it
View(h) ==
    [pc |-> pc[h], verifierCalls |-> verifierCalls[h],
     originCalls |-> originCalls[h], telemetry |-> telemetry[h],
     response |-> response[h]]

TypeOK ==
    /\ env \in Envs
    /\ \A h \in DOMAIN pc :
        /\ pc[h] \in {"idle", "verify", "origin", "done"}
        /\ Len(response[h]) <= 1
        /\ (pc[h] = "done") = (response[h] # << >>)

(***************************************************************************)
(* Vocabulary of the properties: what a handler was given and what it did, *)
(* read from the state and written without the operators of the handler.   *)
(***************************************************************************)
Active(h) == pc[h] # "idle"

\* neither a CORS preflight nor the health check
Proxied(h) ==
    /\ Active(h)
    /\ request[h].method # OPTIONS
    /\ request[h].pathname # HealthPath

ShadowConfigured == "SHADOW_MODE" \in DOMAIN env /\ env.SHADOW_MODE = "true"

ClosedConfigured ==
    "FALLBACK_MODE" \in DOMAIN env /\ env.FALLBACK_MODE = "closed"

\* the method is one of the entries of the configured protected set
InProtectedSet(h) ==
    LET configured == protectedMethods(env)
    IN  \E i \in DOMAIN configured : configured[i] = request[h].method

HeaderIs(hs, n, v) == n \in DOMAIN hs /\ hs[n] = v

ProofHeaders == {"x-proof", "x-scopeblind-proof"}

MetadataHeaders ==
    {"x-scopeblind-mode", "x-scopeblind-verified", "x-scopeblind-action",
     "x-scopeblind-error", "x-scopeblind-remaining"}

\* the non-empty values of the proof headers of the inbound request
ProofTokens(h) ==
    {request[h].headers[n] : n \in ProofHeaders \cap DOMAIN request[h].headers}
        \ {""}

HasProofHeader(h) == ProofTokens(h) # {}

Replied(h) == verifierReplies[h] # << >>
VReply(h) == verifierReplies[h][1]

OutcomeUnreachable(h) ==
    /\ Replied(h)
    /\ \/ VReply(h).kind = "error"
       \/ VReply(h).json.tag \in {"invalid", "null"}

OutcomeObject(h) ==
    /\ Replied(h)
    /\ VReply(h).kind = "response"
    /\ VReply(h).json.tag = "object"

HttpSuccess(h) == VReply(h).status >= 200 /\ VReply(h).status < 300

VerifiedTrue(h) ==
    /\ "verified" \in DOMAIN VReply(h).json.obj
    /\ VReply(h).json.obj.verified = TRUE

OutcomeVerified(h) == OutcomeObject(h) /\ HttpSuccess(h) /\ VerifiedTrue(h)

OutcomeRejected(h) == OutcomeObject(h) /\ ~(HttpSuccess(h) /\ VerifiedTrue(h))

OriginCalled(h) == originCalls[h] # << >>
Out(h) == originCalls[h][1].headers

Answered(h) == pc[h] = "done"
Resp(h) == response[h][1]

\* the handler itself answered with this status and error code
RejectedWith(h, status, code) ==
    /\ Answered(h)
    /\ Resp(h).status = status
    /\ "error" \in DOMAIN Resp(h).body
    /\ Resp(h).body.error = code
    /\ originCalls[h] = << >>

(***************************************************************************)
(* C1: in enforce mode (SHADOW_MODE is not "true"), a request whose method *)
(* is in the protected set is sent to the origin only if the verifier      *)
(* outcome was Verified, or it was Unreachable and the fallback policy is  *)
(* not closed; with no proof, with Rejected, and with Unreachable under    *)
(* closed, the origin is never called.                                     *)
(***************************************************************************)
C1_EnforceForwardsOnlyVerifiedOrFailOpen ==
    \A h \in DOMAIN pc :
        (Active(h) /\ ~ShadowConfigured /\ InProtectedSet(h) /\ OriginCalled(h))
        => \/ OutcomeVerified(h)
           \/ OutcomeUnreachable(h) /\ ~ClosedConfigured

C1_Witness ==
    \E h \in DOMAIN pc :
        /\ Answered(h) /\ ~ShadowConfigured /\ InProtectedSet(h)
        /\ OutcomeUnreachable(h) /\ OriginCalled(h)

(***************************************************************************)
(* C2, as claimed: in shadow mode every request that is neither OPTIONS    *)
(* nor the health check is answered with a status other than 401, 429 and  *)
(* 503, and the origin has been called for it.                             *)
(***************************************************************************)
C2_ShadowNeverAnswers401_429_503 ==
    \A h \in DOMAIN pc :
        (Proxied(h) /\ ShadowConfigured /\ Answered(h))
        => /\ Resp(h).status \notin {401, 429, 503}
           /\ OriginCalled(h)

(***************************************************************************)
(* C2, amended: in shadow mode every request that is neither OPTIONS nor   *)
(* the health check is answered only after exactly one call to the origin, *)
(* and the answer is either the origin's own response, with the origin's   *)
(* status and body, or the 502 upstream_error of a failed origin call; the *)
(* handler never produces a 401, 429 or 503 of its own.                    *)
(***************************************************************************)
C2_ShadowNeverRejects ==
    \A h \in DOMAIN pc :
        (Proxied(h) /\ ShadowConfigured /\ Answered(h))
        => /\ Len(originCalls[h]) = 1
           /\ Len(originReplies[h]) = 1
           /\ IF originReplies[h][1].kind = "response"
              THEN /\ Resp(h).status = originReplies[h][1].status
                   /\ Resp(h).body = originReplies[h][1].body
              ELSE /\ Resp(h).status = 502
                   /\ Resp(h).body.error = "upstream_error"

C2_Witness ==
    \E h \in DOMAIN pc :
        /\ Proxied(h) /\ ShadowConfigured /\ Answered(h)
        /\ InProtectedSet(h) /\ ~HasProofHeader(h)
        /\ ClosedConfigured
        /\ originReplies[h][1].kind = "response"
        /\ Resp(h).status = 200

(***************************************************************************)
(* C3: a request whose method is outside the protected set (and that is    *)
(* neither OPTIONS nor the health check) is forwarded with                 *)
(* X-ScopeBlind-Verified=skipped and X-ScopeBlind-Mode=the current mode,   *)
(* whatever the mode, fallback policy, proof headers; no verifier call and *)
(* no telemetry event is made for it.                                      *)
(***************************************************************************)
C3_UnprotectedForwardedSkipped ==
    \A h \in DOMAIN pc :
        (Proxied(h) /\ ~InProtectedSet(h))
        => /\ pc[h] \in {"origin", "done"}
           /\ Len(originCalls[h]) = 1
           /\ HeaderIs(Out(h), "x-scopeblind-verified", "skipped")
           /\ HeaderIs(Out(h), "x-scopeblind-mode",
                       IF ShadowConfigured THEN "shadow" ELSE "enforce")
           /\ verifierCalls[h] = << >>
           /\ telemetry[h] = << >>

C3_Witness ==
    \E h \in DOMAIN pc :
        /\ Proxied(h) /\ ~InProtectedSet(h) /\ Answered(h)
        /\ request[h].method = POST
        /\ HasProofHeader(h)
        /\ ~ShadowConfigured /\ ClosedConfigured

(***************************************************************************)
(* C4: for a protected request with no proof (X-Proof and                  *)
(* X-ScopeBlind-Proof both absent or empty) the verifier is not called; in *)
(* shadow mode the request is forwarded with verified=missing and          *)
(* action=would-block, in enforce mode the response is 401 with error code *)
(* proof_required and the origin is not called.                            *)
(***************************************************************************)
C4_NoProof ==
    \A h \in DOMAIN pc :
        (Proxied(h) /\ InProtectedSet(h) /\ ~HasProofHeader(h))
        => /\ verifierCalls[h] = << >>
           /\ IF ShadowConfigured
              THEN /\ Len(originCalls[h]) = 1
                   /\ HeaderIs(Out(h), "x-scopeblind-verified", "missing")
                   /\ HeaderIs(Out(h), "x-scopeblind-action", "would-block")
              ELSE RejectedWith(h, 401, "proof_required")

C4_Witness ==
    \E h \in DOMAIN pc :
        /\ Proxied(h) /\ InProtectedSet(h) /\ ~HasProofHeader(h)
        /\ HeaderIs(request[h].headers, "x-proof", "")
        /\ ~ShadowConfigured
        /\ Answered(h)
        /\ Resp(h).status = 401
        /\ verifierCalls[h] = << >>

\* the verifier's JSON object, for a handler whose outcome is an object
VObj(h) == VReply(h).json.obj

\* the 429 carries the verifier's error as its details, or no details when
\* the verifier gave no error
DetailsAreVerifierError(h) ==
    IF "error" \in DOMAIN VObj(h)
    THEN /\ "details" \in DOMAIN Resp(h).body
         /\ Resp(h).body.details = VObj(h).error
    ELSE "details" \notin DOMAIN Resp(h).body

(***************************************************************************)
(* C5, as claimed: for a protected request with a proof and a parseable    *)
(* verifier response that has verified false or absent, or a non-success   *)
(* status, enforce mode answers 429 rate_limited with details equal to the *)
(* verifier's error and does not call the origin; shadow mode forwards     *)
(* with verified=failed, action=would-block and X-ScopeBlind-Error equal   *)
(* to the verifier's error.                                                *)
(***************************************************************************)
C5_RejectedReportsVerifierError ==
    \A h \in DOMAIN pc :
        (Proxied(h) /\ InProtectedSet(h) /\ HasProofHeader(h)
            /\ OutcomeRejected(h))
        => IF ShadowConfigured
           THEN /\ Len(originCalls[h]) = 1
                /\ HeaderIs(Out(h), "x-scopeblind-verified", "failed")
                /\ HeaderIs(Out(h), "x-scopeblind-action", "would-block")
                /\ IF "error" \in DOMAIN VObj(h)
                   THEN HeaderIs(Out(h), "x-scopeblind-error", VObj(h).error)
                   ELSE "x-scopeblind-error" \notin DOMAIN Out(h)
           ELSE /\ RejectedWith(h, 429, "rate_limited")
                /\ DetailsAreVerifierError(h)

(***************************************************************************)
(* C5, amended: as claimed, except that in shadow mode X-ScopeBlind-Error  *)
(* is the verifier's error only when that is a non-empty string, and is    *)
(* "verification_failed" when the verifier gave no error or an empty one.  *)
(***************************************************************************)
C5_RejectedReportsErrorOrDefault ==
    \A h \in DOMAIN pc :
        (Proxied(h) /\ InProtectedSet(h) /\ HasProofHeader(h)
            /\ OutcomeRejected(h))
        => IF ShadowConfigured
           THEN /\ Len(originCalls[h]) = 1
                /\ HeaderIs(Out(h), "x-scopeblind-verified", "failed")
                /\ HeaderIs(Out(h), "x-scopeblind-action", "would-block")
                /\ HeaderIs(Out(h), "x-scopeblind-error",
                        IF "error" \in DOMAIN VObj(h) /\ VObj(h).error # ""
                        THEN VObj(h).error
                        ELSE "verification_failed")
           ELSE /\ RejectedWith(h, 429, "rate_limited")
                /\ DetailsAreVerifierError(h)

C5_Witness ==
    \E h \in DOMAIN pc :
        /\ Proxied(h) /\ InProtectedSet(h) /\ HasProofHeader(h)
        /\ OutcomeRejected(h) /\ ~ShadowConfigured
        /\ ~HttpSuccess(h) /\ VerifiedTrue(h)
        /\ Answered(h)
        /\ Resp(h).status = 429
        /\ "details" \in DOMAIN Resp(h).body
        /\ Resp(h).body.details = "quota_exceeded"

(***************************************************************************)
(* C6: for a protected request with a proof whose verifier call fails (the *)
(* call rejects, or the body cannot be used), enforce mode with the closed *)
(* fallback answers 503 verification_unavailable and does not call the     *)
(* origin; enforce mode with any other fallback, and shadow mode with any  *)
(* fallback, forward with verified=error and action=fallback-allow.        *)
(***************************************************************************)
C6_UnreachableFollowsFallback ==
    \A h \in DOMAIN pc :
        (Proxied(h) /\ InProtectedSet(h) /\ HasProofHeader(h)
            /\ OutcomeUnreachable(h))
        => IF ~ShadowConfigured /\ ClosedConfigured
           THEN RejectedWith(h, 503, "verification_unavailable")
           ELSE /\ Len(originCalls[h]) = 1
                /\ HeaderIs(Out(h), "x-scopeblind-verified", "error")
                /\ HeaderIs(Out(h), "x-scopeblind-action", "fallback-allow")

C6_Witness ==
    \E h \in DOMAIN pc :
        /\ Proxied(h) /\ InProtectedSet(h) /\ HasProofHeader(h)
        /\ OutcomeUnreachable(h)
        /\ VReply(h).kind = "response" /\ VReply(h).json.tag = "invalid"
        /\ ShadowConfigured /\ ClosedConfigured
        /\ OriginCalled(h)

(***************************************************************************)
(* C7: no request sent to the origin carries an X-Proof or an              *)
(* X-ScopeBlind-Proof header, and none of its X-ScopeBlind-* metadata      *)
(* headers has a proof token of the inbound request as its value.          *)
(***************************************************************************)
C7_ProofNeverReachesOrigin ==
    \A h \in DOMAIN pc :
        \A i \in DOMAIN originCalls[h] :
            LET out == originCalls[h][i].headers IN
            /\ ProofHeaders \cap DOMAIN out = {}
            /\ \A n \in MetadataHeaders \cap DOMAIN out :
                    out[n] \notin ProofTokens(h)

C7_Witness ==
    \E h \in DOMAIN pc :
        /\ OriginCalled(h)
        /\ HeaderIs(request[h].headers, "x-proof", TokenA)
        /\ HeaderIs(request[h].headers, "x-scopeblind-proof", TokenB)
        /\ OutcomeVerified(h)

\* the action tag that the outcome of a protected request calls for
ExpectedAction(h) ==
    CASE ~HasProofHeader(h)    -> "no_proof"
      [] OutcomeRejected(h)    -> "verify_failed"
      [] OutcomeUnreachable(h) -> "verifier_error"
      [] OutcomeVerified(h)    -> "verified"
      [] OTHER                 -> "none"

(***************************************************************************)
(* C8: a protected request that has reached its decision has emitted       *)
(* exactly one telemetry event, whose action is no_proof, verify_failed,   *)
(* verifier_error or verified according to the outcome, in both modes; an  *)
(* unprotected, an OPTIONS and a health request emit none; no handler ever *)
(* emits a second event, also when the origin call fails afterwards.       *)
(***************************************************************************)
C8_OneTelemetryEvent ==
    \A h \in DOMAIN pc :
        /\ Len(telemetry[h]) <= 1
        /\ (Active(h) /\ ~(Proxied(h) /\ InProtectedSet(h)))
            => telemetry[h] = << >>
        /\ (Proxied(h) /\ InProtectedSet(h) /\ pc[h] \in {"origin", "done"})
            => /\ Len(telemetry[h]) = 1
               /\ telemetry[h][1].action = ExpectedAction(h)

C8_Witness ==
    \E h \in DOMAIN pc :
        /\ Proxied(h) /\ InProtectedSet(h) /\ Answered(h)
        /\ OutcomeVerified(h) /\ ~ShadowConfigured
        /\ Resp(h).status = 502
        /\ Len(telemetry[h]) = 1

\* the handler did not take the unprotected branch
TreatedAsProtected(h) ==
    ~(OriginCalled(h) /\ HeaderIs(Out(h), "x-scopeblind-verified", "skipped"))

(***************************************************************************)
(* C9: the classifier compares the method case-insensitively: a request is *)
(* treated as protected iff its uppercased method is in the uppercased     *)
(* configured set (a request with method "patch" is protected when PATCH   *)
(* is configured).                                                         *)
(***************************************************************************)
C9_ClassifierIgnoresCase ==
    \A h \in DOMAIN pc :
        Proxied(h)
        => LET configured == protectedMethods(env) IN
           TreatedAsProtected(h)
           <=> \E i \in DOMAIN configured :
                    toUpperCase(configured[i]) = toUpperCase(request[h].method)

(***************************************************************************)
(* C10: whenever the call to the origin fails, the response is 502 with    *)
(* error code upstream_error, in every mode, under every fallback policy   *)
(* and after every decision that led to the forward.                       *)
(***************************************************************************)
C10_OriginFailureIs502 ==
    \A h \in DOMAIN pc :
        (Answered(h) /\ originReplies[h] # << >>
            /\ originReplies[h][1].kind = "error")
        => /\ Resp(h).status = 502
           /\ "error" \in DOMAIN Resp(h).body
           /\ Resp(h).body.error = "upstream_error"

C10_Witness ==
    \E h \in DOMAIN pc :
        /\ Answered(h) /\ originReplies[h] # << >>
        /\ originReplies[h][1].kind = "error"
        /\ OutcomeUnreachable(h)
        /\ ~ShadowConfigured /\ ~ClosedConfigured
        /\ Resp(h).status = 502

\* the headers the origin is to receive for a verified request: those of
\* the inbound request without the proof headers, with the mode, with
\* verified=true, and with the verifier's remaining quota when it gave one
VerifiedHeaders(h) ==
    LET inbound == request[h].headers
        given == "remaining" \in DOMAIN VObj(h)
    IN  [n \in (DOMAIN inbound \ ProofHeaders)
                \cup {"x-scopeblind-mode", "x-scopeblind-verified"}
                \cup (IF given THEN {"x-scopeblind-remaining"} ELSE {}) |->
            CASE n = "x-scopeblind-mode" ->
                    IF ShadowConfigured THEN "shadow" ELSE "enforce"
              [] n = "x-scopeblind-verified" -> "true"
              [] n = "x-scopeblind-remaining" /\ given ->
                    ToString(VObj(h).remaining)
              [] OTHER -> inbound[n]]

(***************************************************************************)
(* C11: a protected request with a proof whose verifier call answers with  *)
(* HTTP success and verified=true is forwarded, in shadow and in enforce   *)
(* mode and under every fallback policy alike, with                        *)
(* X-ScopeBlind-Verified=true, with X-ScopeBlind-Remaining equal to the    *)
(* verifier's remaining value when it gave one (0 included), and with no   *)
(* Remaining header set by the gateway when it gave none; the mode header  *)
(* is the only header that depends on the configuration.                   *)
(***************************************************************************)
C11_VerifiedForwarded ==
    \A h \in DOMAIN pc :
        (Proxied(h) /\ InProtectedSet(h) /\ HasProofHeader(h)
            /\ OutcomeVerified(h))
        => /\ Len(originCalls[h]) = 1
           /\ Out(h) = VerifiedHeaders(h)
           /\ originCalls[h][1].method = request[h].method
           /\ originCalls[h][1].pathname = request[h].pathname

C11_Witness ==
    \E h \in DOMAIN pc :
        /\ Proxied(h) /\ InProtectedSet(h) /\ HasProofHeader(h)
        /\ OutcomeVerified(h)
        /\ "remaining" \in DOMAIN VObj(h) /\ VObj(h).remaining = 0
        /\ ~ShadowConfigured /\ ClosedConfigured
        /\ OriginCalled(h)
        /\ HeaderIs(Out(h), "x-scopeblind-remaining", "0")

(***************************************************************************)
(* C12: every request with method OPTIONS is answered at once with a 2xx   *)
(* preflight response without a body, on every path (the health path       *)
(* included), in every mode and configuration, also when OPTIONS is listed *)
(* in the protected methods; no verifier call, no origin call and no       *)
(* telemetry event is made for it.                                         *)
(***************************************************************************)
C12_PreflightAnsweredDirectly ==
    \A h \in DOMAIN pc :
        (Active(h) /\ request[h].method = OPTIONS)
        => /\ Answered(h)
           /\ Resp(h).status >= 200 /\ Resp(h).status < 300
           /\ Resp(h).body = NoBody
           /\ {"access-control-allow-origin", "access-control-allow-methods",
               "access-control-allow-headers", "access-control-max-age"}
                    \subseteq DOMAIN Resp(h).headers
           /\ verifierCalls[h] = << >>
           /\ originCalls[h] = << >>
           /\ telemetry[h] = << >>

C12_Witness ==
    \E h \in DOMAIN pc :
        /\ Answered(h) /\ request[h].method = OPTIONS
        /\ request[h].pathname = HealthPath
        /\ InProtectedSet(h) /\ ~HasProofHeader(h)
        /\ ~ShadowConfigured
        /\ Resp(h).status = 200

\* the error of the verifier's object when it is a non-empty string, else d
ErrorOrDefault(h, d) ==
    IF "error" \in DOMAIN VObj(h) /\ VObj(h).error # ""
    THEN VObj(h).error
    ELSE d

\* a rejected request about which the gateway has reported
RejectedReported(h) ==
    /\ Proxied(h) /\ InProtectedSet(h) /\ HasProofHeader(h)
    /\ OutcomeRejected(h)

(***************************************************************************)
(* C13, as claimed: for a Rejected outcome the reason is the verifier's    *)
(* error when present and "unknown" otherwise, and this one reason is the  *)
(* error of the verify_failed event, the X-ScopeBlind-Error header in      *)
(* shadow mode and the details of the 429 in enforce mode.                 *)
(***************************************************************************)
C13_OneReasonEverywhere ==
    \A h \in DOMAIN pc :
        RejectedReported(h)
        => LET reason == IF "error" \in DOMAIN VObj(h)
                         THEN VObj(h).error ELSE "unknown"
           IN  /\ Len(telemetry[h]) = 1
               /\ telemetry[h][1].error = reason
               /\ IF ShadowConfigured
                  THEN HeaderIs(Out(h), "x-scopeblind-error", reason)
                  ELSE /\ Answered(h)
                       /\ "details" \in DOMAIN Resp(h).body
                       /\ Resp(h).body.details = reason

(***************************************************************************)
(* C13, amended: for a Rejected outcome the three reports agree only when  *)
(* the verifier's error is a non-empty string.  The verify_failed event    *)
(* carries the error, or "unknown" when it is absent or empty; the         *)
(* X-ScopeBlind-Error header of shadow mode carries the error, or          *)
(* "verification_failed" when it is absent or empty; the 429 of enforce    *)
(* mode carries the error as given in details, and no details when the     *)
(* verifier gave no error.                                                 *)
(***************************************************************************)
C13_ReasonPerReport ==
    \A h \in DOMAIN pc :
        RejectedReported(h)
        => /\ Len(telemetry[h]) = 1
           /\ telemetry[h][1].action = "verify_failed"
           /\ telemetry[h][1].error = ErrorOrDefault(h, "unknown")
           /\ telemetry[h][1].status = VReply(h).status
           /\ IF ShadowConfigured
              THEN HeaderIs(Out(h), "x-scopeblind-error",
                            ErrorOrDefault(h, "verification_failed"))
              ELSE /\ Answered(h)
                   /\ Resp(h).status = 429
                   /\ DetailsAreVerifierError(h)

C13_Witness ==
    \E h \in DOMAIN pc :
        /\ RejectedReported(h) /\ ~ShadowConfigured /\ Answered(h)
        /\ "error" \notin DOMAIN VObj(h)
        /\ telemetry[h][1].error = "unknown"
        /\ "details" \notin DOMAIN Resp(h).body

\* header n of the request sent to the origin was written by the gateway:
\* the client's request did not carry it with this value
GatewaySet(h, n) ==
    /\ n \in DOMAIN Out(h)
    /\ ~HeaderIs(request[h].headers, n, Out(h)[n])

OwnAnswer(h) == Answered(h) /\ originCalls[h] = << >>

(***************************************************************************)
(* C15: shadow mode is the default: unless SHADOW_MODE is "false", and so  *)
(* also when it is not set, the gateway reports mode shadow (on the        *)
(* health check and to the origin) and answers no request with a 401, 429  *)
(* or 503 of its own.                                                      *)
(***************************************************************************)
C15_ShadowIsDefault ==
    ~("SHADOW_MODE" \in DOMAIN env /\ env.SHADOW_MODE = "false")
    => \A h \in DOMAIN pc :
        /\ OriginCalled(h) => HeaderIs(Out(h), "x-scopeblind-mode", "shadow")
        /\ (OwnAnswer(h) /\ request[h].method # OPTIONS
                /\ request[h].pathname = HealthPath)
            => Resp(h).body.mode = "shadow"
        /\ OwnAnswer(h) => Resp(h).status \notin {401, 429, 503}

(***************************************************************************)
(* C16: every request to /_scopeblind/health whose method is not OPTIONS   *)
(* is answered with {ok: true, mode, origin, verifier} as configured, with *)
(* no verifier call, no origin call and no telemetry event, in every mode, *)
(* whether or not its method is protected or it carries a proof.           *)
(***************************************************************************)
C16_HealthBypassesEverything ==
    \A h \in DOMAIN pc :
        (Active(h) /\ request[h].method # OPTIONS
            /\ request[h].pathname = HealthPath)
        => /\ Answered(h)
           /\ Resp(h).status = 200
           /\ Resp(h).body =
                [ok |-> TRUE,
                 mode |-> IF ShadowConfigured THEN "shadow" ELSE "enforce",
                 origin |-> env.ORIGIN_URL,
                 verifier |-> env.SCOPEBLIND_VERIFIER_URL]
           /\ verifierCalls[h] = << >>
           /\ originCalls[h] = << >>
           /\ telemetry[h] = << >>

C16_Witness ==
    \E h \in DOMAIN pc :
        /\ Answered(h) /\ request[h].method = POST
        /\ request[h].pathname = HealthPath
        /\ InProtectedSet(h) /\ HasProofHeader(h)
        /\ ~ShadowConfigured
        /\ Resp(h).body.ok = TRUE

\* at most one call of each kind, the verifier call only for a protected
\* request with a proof, the origin call only after the verifier's reply
CallDiscipline(h) ==
    /\ Len(verifierCalls[h]) <= 1
    /\ Len(originCalls[h]) <= 1
    /\ Len(verifierReplies[h]) <= Len(verifierCalls[h])
    /\ Len(originReplies[h]) <= Len(originCalls[h])
    /\ verifierCalls[h] # << >>
        => Proxied(h) /\ InProtectedSet(h) /\ HasProofHeader(h)
    /\ (OriginCalled(h) /\ verifierCalls[h] # << >>)
        => Len(verifierReplies[h]) = 1
    /\ pc[h] = "verify"
        => Len(verifierReplies[h]) = 0 /\ originCalls[h] = << >>

(***************************************************************************)
(* C17, as claimed: a handler makes at most one verifier call and at most  *)
(* one origin call, the verifier call only for a protected request with a  *)
(* proof, the origin call only after the verifier call (if any) has        *)
(* completed; a request answered 401, 429 or 503 has made no origin call.  *)
(***************************************************************************)
C17_CallsAndNoOriginCallOn401_429_503 ==
    \A h \in DOMAIN pc :
        /\ CallDiscipline(h)
        /\ (Answered(h) /\ Resp(h).status \in {401, 429, 503})
            => originCalls[h] = << >>

(***************************************************************************)
(* C17, amended: as claimed, except that only a 401, 429 or 503 that the   *)
(* handler produces itself comes without an origin call; a request whose   *)
(* origin answers 401, 429 or 503 is answered with that status after its   *)
(* one origin call.                                                        *)
(***************************************************************************)
C17_CallsAndNoOriginCallOnOwnRejection ==
    \A h \in DOMAIN pc :
        /\ CallDiscipline(h)
        /\ (Answered(h) /\ Resp(h).status \in {401, 429, 503})
            => \/ /\ originCalls[h] = << >>
                  /\ Resp(h).body.error \in
                        {"proof_required", "rate_limited",
                         "verification_unavailable"}
               \/ /\ Len(originReplies[h]) = 1
                  /\ originReplies[h][1].kind = "response"
                  /\ originReplies[h][1].status = Resp(h).status
                  /\ Resp(h).body = originReplies[h][1].body

C17_Witness ==
    \E h \in DOMAIN pc :
        /\ Answered(h)
        /\ Len(verifierCalls[h]) = 1 /\ Len(originCalls[h]) = 1
        /\ OutcomeUnreachable(h)
        /\ Resp(h).status = 401

\* two sets of bindings that differ at most in FALLBACK_MODE
SameButFallback(e1, e2) ==
    /\ DOMAIN e1 \ {"FALLBACK_MODE"} = DOMAIN e2 \ {"FALLBACK_MODE"}
    /\ \A k \in DOMAIN e1 \ {"FALLBACK_MODE"} : e1[k] = e2[k]

(***************************************************************************)
(* C18: the fallback policy matters only in enforce mode with an           *)
(* unreachable verifier: in every other case the same request, given the   *)
(* same replies under bindings that differ only in FALLBACK_MODE, leads to *)
(* the same response, the same calls to the verifier and to the origin     *)
(* (metadata headers included) and the same telemetry event.               *)
(***************************************************************************)
C18_FallbackOnlyInEnforceUnreachable ==
    \A h \in DOMAIN pc :
        (Active(h) /\ ~(~ShadowConfigured /\ OutcomeUnreachable(h)))
        => \A e2 \in Envs :
                SameButFallback(env, e2)
                => alone(e2, request[h], verifierReplies[h], originReplies[h])
                        = View(h)

C18_Witness ==
    \E h \in DOMAIN pc :
        /\ Answered(h) /\ ShadowConfigured /\ ClosedConfigured
        /\ OutcomeUnreachable(h)
        /\ OriginCalled(h)
        /\ \E e2 \in Envs : SameButFallback(env, e2) /\ e2 # env

\* a handler that is free holds nothing of the request it handled before
Clean(h) ==
    /\ request[h] = NoRequest
    /\ verifierCalls[h] = << >> /\ verifierReplies[h] = << >>
    /\ originCalls[h] = << >> /\ originReplies[h] = << >>
    /\ telemetry[h] = << >> /\ response[h] = << >>

(***************************************************************************)
(* C19: requests are independent: under every interleaving of the handlers *)
(* at their awaits, and after every sequence of earlier requests, what a   *)
(* handler has decided, sent and logged is what it would have done with    *)
(* its own request and its own replies alone; in particular, a protected   *)
(* request whose verifier call fails while the fallback is not closed is   *)
(* forwarded with verified=error and action=fallback-allow every time.     *)
(***************************************************************************)
C19_RequestsIndependent ==
    \A h \in DOMAIN pc :
        /\ ~Active(h) => Clean(h)
        /\ Active(h)
            => View(h) = alone(env, request[h], verifierReplies[h],
                               originReplies[h])
        /\ (Proxied(h) /\ InProtectedSet(h) /\ HasProofHeader(h)
                /\ OutcomeUnreachable(h) /\ ~ClosedConfigured)
            => /\ Len(originCalls[h]) = 1
               /\ HeaderIs(Out(h), "x-scopeblind-verified", "error")
               /\ HeaderIs(Out(h), "x-scopeblind-action", "fallback-allow")

C19_Witness ==
    \E h1 \in DOMAIN pc : \E h2 \in DOMAIN pc :
        /\ h1 # h2
        /\ request[h1] = request[h2]
        /\ OutcomeUnreachable(h1) /\ OutcomeUnreachable(h2)
        /\ ~ShadowConfigured /\ ~ClosedConfigured
        /\ Answered(h1) /\ Resp(h1).status = 502
        /\ pc[h2] = "origin"

\* the request without the X-ScopeBlind-* metadata headers of the client
StripClient(req) ==
    [req EXCEPT !.headers = [n \in DOMAIN @ \ MetadataHeaders |-> @[n]]]

\* the X-ScopeBlind-* metadata among the headers hs
Metadata(hs) == [n \in DOMAIN hs \cap MetadataHeaders |-> hs[n]]

(***************************************************************************)
(* C20: the client cannot influence the decision metadata that the origin  *)
(* sees: the X-ScopeBlind-* headers of the request sent to the origin are  *)
(* those that the same request would get without any X-ScopeBlind-Mode,    *)
(* -Verified, -Action, -Error or -Remaining header of the client, so every *)
(* such header that reaches the origin was set by the gateway.             *)
(***************************************************************************)
C20_ClientCannotInfluenceMetadata ==
    \A h \in DOMAIN pc :
        OriginCalled(h)
        => Metadata(Out(h)) =
           Metadata(alone(env, StripClient(request[h]), verifierReplies[h],
                          originReplies[h]).originCalls[1].headers)

====
